---------------------------- MODULE Spec2Model ----------------------------
(***************************************************************************)
(* STAR radiation monitor: the control loop of star.c (main), the Geiger   *)
(* counting engine of geiger.c (setSecNum, countInterrupt, geigerReset,    *)
(* HVOn/HVOff, ...) and the termination signal handler.                    *)
(*                                                                         *)
(* Threads: the control thread (main), the wiringPi interrupt thread that  *)
(* runs countInterrupt once per edge of the Geiger pin, and the signal     *)
(* handler breakHandler, which may run at any point of the control thread. *)
(*                                                                         *)
(* Units: seconds for the tick clock; 100 us for the edge timestamps, so   *)
(* the plausibility ceiling of 0.005 s is 50.                              *)
(***************************************************************************)
EXTENDS Integers, Sequences, FiniteSets, TLC

(***************************************************************************)
(* Program constants                                                       *)
(***************************************************************************)
size == 60

buffer_seconds == 5

DeadTimeCeiling == 50

\* static int flashTime = 5: the length of a flash of the LED, in ms
flashTime == 5

SIGINT == 2

SIGQUIT == 3

SIGABRT == 6

SIGTERM == 15

Signals == {SIGINT, SIGQUIT, SIGABRT, SIGTERM}

\* The signals the model delivers
SignalInputs == {SIGINT, SIGTERM}

\* geigerAlt / deadBand: the static initialisers and the -b, -l, -t presets
Presets ==
  [ d |-> [alt |-> 175, band |-> 10],
    b |-> [alt |-> 0,   band |-> 0],
    l |-> [alt |-> 100, band |-> 10],
    t |-> [alt |-> 50,  band |-> 3] ]

\* MS5607.c: the commands of the altimeter
CMD_RESET == 30

CMD_ADC_READ == 0

CMD_ADC_CONV == 64

CMD_ADC_D1 == 0

CMD_ADC_D2 == 16

CMD_ADC_256 == 0

CMD_ADC_512 == 2

CMD_ADC_1024 == 4

CMD_ADC_2048 == 6

CMD_ADC_4096 == 8

CMD_PROM_RD == 160

(***************************************************************************)
(* Bounds of the model                                                     *)
(***************************************************************************)
MaxTicks == 3

MaxEdges == 2

\* getIndex is called with the indexes -MaxIndex .. MaxIndex
MaxIndex == 125

\* The windows sumCounts is called with, in seconds
WindowInputs == {1, 59, 60, 61, 120, 180}

\* The active indexes sumCounts is called at
SecNumInputs == {0, 30, 59}

\* The bytes the altimeter sends back
ByteInputs == {0, 255}

\* The delays SPISetDelay is called with by other users of the bus
DelayInputs == {0, 900, 1000, 5000}

\* The coefficient numbers altimeterCalibration is called with
CoeffInputs == 0 .. 7

\* The calibration coefficients coeffs[0 .. 7] of the altimeter
CoeffSets ==
  {[k \in 0 .. 7 |-> <<0, 40, 36, 23, 17, 200, 32768, 0>>[k + 1]],
   [k \in 0 .. 7 |-> <<0, 46, 43, 29, 27, 200, 32768, 0>>[k + 1]]}

\* The raw pressure samples D1 (24 bits)
PRawInputs == {2097152, 6291456}

\* The raw temperature samples D2 (24 bits): with the coefficients above
\* they give the first-order temperatures 19, 20 and 21 degrees C
TRawInputs == {25600, 51200, 76800}

\* The commands altimeterADC is called with: D1 or D2 at each oversampling
\* ratio
CmdInputs ==
  {d + o : d \in {CMD_ADC_D1, CMD_ADC_D2},
           o \in {CMD_ADC_256, CMD_ADC_512, CMD_ADC_1024, CMD_ADC_2048,
                  CMD_ADC_4096}}

\* The command-line options: none, -b, -l, -t
Options == {"d", "b", "l", "t"}

\* Seconds from the start of one tick to the start of the next
Steps == {1}

\* Intervals, in 100 us, between two successive edges of the Geiger pin
DtSet == {3}

\* The scenario of the launch-day preset: one altitude per tick
Scenario == <<50, 95, 101, 150, 105, 95, 88, 70>>

ScenarioHV == <<FALSE, FALSE, TRUE, TRUE, TRUE, TRUE, FALSE, FALSE>>

\* A flight above the threshold in which the altimeter gives one bad reading
\* (the third): one altitude per tick, launch-day preset
BadReading == <<50, 150, 50, 150>>

VARIABLES
  \* configuration (star.c globals)
  geigerAlt, deadBand,
  \* control thread (main)
  ctl, keepRunning, sigReceived, handlers, doPost, elapsed, curSec, bufSec,
  counts, rdDeadTime, rdDeadCounts, altitude, hvSeen, inPost,
  ssArg, ssCaller, numSecs,
  \* the startup operation that failed (fopen returned NULL, altimeterSetup
  \* returned a negative value), "" when none did
  fault,
  \* data[0 .. buffer_seconds - 1], the write buffer: each entry is the tick
  \* whose record it holds (0: never written to); csv: the rows written to
  \* the output file, each the tick whose record it is
  data, csv,
  \* the number of calls of setQFF, which writes the QFF reference
  qffCalls,
  \* PiSPI.c: the delay between SPI reads and writes, in microseconds
  spiDelay,
  \* geiger.c globals
  HVisOn, gatePin, secNum, sec, deadTime, deadCounts, t1, t2,
  lock_sec, lock_count, isrOn,
  \* interrupt thread (countInterrupt)
  isr, idx, tmp, mono,
  \* inputs and history
  profile, tick, edges, arrived, resetIdle, hvTrace, hvOnCount, hvOffCount,
  postCount,
  \* history: the active index when the falling edge last recorded t1
  t1Slot,
  \* geiger.c, the indicator: LEDTime, LEDisOn; the LED thread (blinkLED):
  \* its position, the value it loaded in LEDTime -= flashTime, and, as
  \* history, the number of flashes it started
  LEDTime, LEDisOn, led, ledReg, flashes,
  \* one call of a function on its own: the function, its arguments, its
  \* result
  fn, fnArg, fnRet

cfgVars == <<geigerAlt, deadBand>>

\* what no step of the running program changes
inVars == <<profile, fn, fnArg, fnRet, LEDisOn, led, ledReg, flashes>>

ctlVars == <<ctl, doPost, elapsed, curSec, bufSec, counts, rdDeadTime,
             rdDeadCounts, altitude, hvSeen, inPost, ssArg, ssCaller,
             numSecs, fault, qffCalls, spiDelay, data, csv>>

sigVars == <<keepRunning, sigReceived, handlers>>

hvVars == <<HVisOn, gatePin, hvOnCount, hvOffCount>>

slotVars == <<secNum, sec, deadTime, deadCounts>>

edgeVars == <<t1, t2>>

lockVars == <<lock_sec, lock_count>>

isrVars == <<isr, idx, tmp, mono, edges, isrOn>>

histVars == <<inVars, tick, arrived, resetIdle, hvTrace, postCount, t1Slot,
              LEDTime>>

vars == <<cfgVars, ctlVars, sigVars, hvVars, slotVars, edgeVars, lockVars,
          isrVars, histVars>>

Slots == 0 .. (size - 1)

ZeroSlots == [s \in Slots |-> 0]

(***************************************************************************)
(* Pure functions of geiger.c                                              *)
(***************************************************************************)

\* C's % truncates toward zero
CRem(a, b) == IF a >= 0 THEN a % b ELSE -((-a) % b)

\* (getIndex without the step that counts a negative remainder backwards)
getIndex_NoWrap(numIndex) == CRem(numIndex, size)

getIndex(numIndex) ==
  LET r == CRem(numIndex, size)
  IN  IF r < 0 THEN size + r ELSE r

RECURSIVE SumFrom(_, _, _, _)
\* The total the loop for (i..n) total += arr[getIndex(cur - i)] adds, the
\* terms grouped in halves
SumFrom(arr, cur, i, n) ==
  IF i >= n THEN 0
  ELSE IF n - i = 1 THEN arr[getIndex(cur - i)]
  ELSE LET m == (i + n) \div 2
       IN  SumFrom(arr, cur, i, m) + SumFrom(arr, cur, m, n)

\* sumCounts(numSecs): total of sec[getIndex(getSecNum() - i)], i in [0, numSecs)
sumCounts(n) == SumFrom(sec, secNum, 0, n)

\* t2 - t1 in unsigned arithmetic: a timestamp that went backwards wraps to a
\* huge positive difference (represented by a value above every ceiling)
WrapSpan == 1000000

UDiff(a, b) == IF a >= b THEN a - b ELSE WrapSpan - (b - a)


(***************************************************************************)
(* Initial state: the process image before main runs.  Globals without an  *)
(* initialiser are zero (C static storage); geigerAlt, deadBand and doPost *)
(* have initialisers.                                                      *)
(***************************************************************************)
\* The state after construction, but for the counts, the active index and
\* the level of the gate pin
InitBody ==
  /\ geigerAlt = Presets.d.alt /\ deadBand = Presets.d.band
  /\ ctl = "start" /\ keepRunning = FALSE /\ sigReceived = 0
  /\ handlers = FALSE /\ doPost = TRUE
  /\ elapsed = 0 /\ curSec = 0 /\ bufSec = 0
  /\ counts = 0 /\ rdDeadTime = 0 /\ rdDeadCounts = 0
  /\ altitude = 0 /\ hvSeen = FALSE /\ inPost = FALSE
  /\ ssArg = 0 /\ ssCaller = "none" /\ numSecs = 0 /\ fault = "" /\ qffCalls = 0
  /\ data = [i \in 0 .. buffer_seconds - 1 |-> 0] /\ csv = <<>>
  /\ spiDelay = 1000
  /\ HVisOn = FALSE
  /\ deadTime = ZeroSlots
  /\ deadCounts = ZeroSlots /\ t1 = 0 /\ t2 = 0
  /\ lock_sec = "none" /\ lock_count = "none" /\ isrOn = FALSE
  /\ isr = "idle" /\ idx = 0 /\ tmp = 0 /\ mono = 1
  /\ tick = 0 /\ edges = 0 /\ arrived = 0 /\ resetIdle = "no"
  /\ hvTrace = <<>> /\ hvOnCount = 0 /\ hvOffCount = 0 /\ postCount = 0
  /\ t1Slot = 0
  /\ LEDTime = 0 /\ LEDisOn = FALSE /\ led = "none" /\ ledReg = 0
  /\ flashes = 0

\* The gate pin is low, as a reset of the board leaves it
InitRest == InitBody /\ gatePin = FALSE

InitProgram == InitRest /\ secNum = 0 /\ sec = ZeroSlots

\* The gate pin at either level, as an earlier process may have left it
InitGate ==
  /\ InitBody /\ gatePin \in BOOLEAN
  /\ secNum = 0 /\ sec = ZeroSlots /\ profile = <<>>
  /\ fn = "" /\ fnArg = <<>> /\ fnRet = 0

\* Altitudes are free inputs
\* No function is called on its own
NoCall == fn = "" /\ fnArg = <<>> /\ fnRet = 0

Init == InitProgram /\ profile = <<>> /\ NoCall

\* Altitudes are fed from the scenario, one per tick
InitScenario == InitProgram /\ profile = Scenario /\ NoCall

(***************************************************************************)
(* breakHandler: SIGINT, SIGQUIT, SIGABRT or SIGTERM, at any point after   *)
(* sigaction installed it and before the process ends.                     *)
(***************************************************************************)
breakHandler ==
  /\ handlers /\ ctl \notin {"exited", "failed"}
  /\ \E s \in SignalInputs : sigReceived' = s
  /\ keepRunning' = FALSE
  /\ UNCHANGED <<cfgVars, ctlVars, handlers, hvVars, slotVars, edgeVars,
                 lockVars, isrVars, histVars>>

(***************************************************************************)
(* countInterrupt, on the wiringPi interrupt thread: one call per edge,    *)
(* calls never overlap.  Each step is one shared-memory access or one lock *)
(* operation.                                                              *)
(***************************************************************************)
isrFrame == <<cfgVars, ctlVars, sigVars, hvVars, inVars, tick, resetIdle,
             hvTrace, postCount>>

\* An edge of the Geiger pin wakes the interrupt thread.  The tube gives
\* pulses only while its high voltage is on (the gate pin is high).
EdgeArrivesUpTo(D, n) ==
  /\ isrOn /\ gatePin /\ isr = "idle" /\ edges < n
  /\ ctl \notin {"exited", "failed"}
  /\ \E d \in D : mono' = mono + d
  /\ edges' = edges + 1
  /\ arrived' = arrived + 1
  /\ isr' = "ci_lock"
  /\ UNCHANGED <<isrFrame, t1Slot, LEDTime, slotVars, edgeVars, lockVars, idx, tmp,
                 isrOn>>

\* At most MaxEdges edges arrive
EdgeArrives(D) == EdgeArrivesUpTo(D, MaxEdges)

\* pthread_mutex_lock(&lock_count), then the test of t1 and t2
CI_Lock ==
  /\ isr = "ci_lock" /\ lock_count = "none"
  /\ lock_count' = "isr"
  /\ isr' = IF t1 = 0 THEN "ci_f_getsec"
            ELSE IF t1 = t2 THEN "ci_r_stamp" ELSE "ci_impossible"
  /\ UNCHANGED <<isrFrame, arrived, t1Slot, LEDTime, slotVars, edgeVars, lock_sec,
                 idx, tmp, mono,
                 edges, isrOn>>

\* getSecNum() inside sec[getSecNum()]++, deadTime[getSecNum()] and
\* deadCounts[getSecNum()]: lock_sec is taken, secNum read, lock_sec released
CI_GetSecNum ==
  /\ isr \in {"ci_f_getsec", "ci_r_dt_getsec", "ci_r_dc_getsec"}
  /\ lock_sec = "none"
  /\ idx' = secNum
  /\ isr' = CASE isr = "ci_f_getsec"    -> "ci_f_load"
              [] isr = "ci_r_dt_getsec" -> "ci_r_dt_add"
              [] isr = "ci_r_dc_getsec" -> "ci_r_dc_add"
  /\ UNCHANGED <<isrFrame, arrived, t1Slot, LEDTime, slotVars, edgeVars, lockVars,
                 tmp, mono, edges,
                 isrOn>>

\* sec[idx]++ : the load
CI_FallLoad ==
  /\ isr = "ci_f_load"
  /\ tmp' = sec[idx]
  /\ isr' = "ci_f_store"
  /\ UNCHANGED <<isrFrame, arrived, t1Slot, LEDTime, slotVars, edgeVars, lockVars,
                 idx, mono, edges,
                 isrOn>>

\* (countInterrupt counting a falling edge as two pulses)
CI_FallStore_Double ==
  /\ isr = "ci_f_store"
  /\ sec' = [sec EXCEPT ![idx] = tmp + 2]
  /\ isr' = "ci_f_led_load"
  /\ UNCHANGED <<isrFrame, arrived, t1Slot, LEDTime, secNum, deadTime,
                 deadCounts, edgeVars, lockVars, idx, tmp, mono, edges,
                 isrOn>>

\* sec[idx]++ : the store
CI_FallStore ==
  /\ isr = "ci_f_store"
  /\ sec' = [sec EXCEPT ![idx] = tmp + 1]
  /\ isr' = "ci_f_led_load"
  /\ UNCHANGED <<isrFrame, arrived, t1Slot, LEDTime, secNum, deadTime, deadCounts,
                 edgeVars, lockVars,
                 idx, tmp, mono, edges, isrOn>>

\* LEDTime += flashTime : the load
CI_LedLoad ==
  /\ isr = "ci_f_led_load"
  /\ tmp' = LEDTime
  /\ isr' = "ci_f_led_store"
  /\ UNCHANGED <<isrFrame, arrived, t1Slot, LEDTime, slotVars, edgeVars,
                 lockVars, idx, mono, edges, isrOn>>

\* LEDTime += flashTime : the store
CI_LedStore ==
  /\ isr = "ci_f_led_store"
  /\ LEDTime' = tmp + flashTime
  /\ isr' = "ci_f_stamp"
  /\ UNCHANGED <<isrFrame, arrived, t1Slot, slotVars, edgeVars, lockVars,
                 idx, tmp, mono, edges, isrOn>>

\* t1 = t2 = now
CI_FallStamp ==
  /\ isr = "ci_f_stamp"
  /\ t1' = mono /\ t2' = mono
  /\ t1Slot' = secNum
  /\ isr' = "ci_unlock"
  /\ UNCHANGED <<isrFrame, arrived, LEDTime, slotVars, lockVars, idx, tmp,
                 mono, edges, isrOn>>

\* (countInterrupt leaving t1 as it is when the interval is above 5 ms)
CI_RiseStamp_KeepT1 ==
  /\ isr = "ci_r_stamp"
  /\ t2' = mono
  /\ t1' = t1
  /\ isr' = IF UDiff(mono, t1) > 0 /\ UDiff(mono, t1) <= DeadTimeCeiling
            THEN "ci_r_dt_getsec" ELSE "ci_unlock"
  /\ UNCHANGED <<isrFrame, arrived, t1Slot, LEDTime, slotVars, lockVars, idx, tmp,
                 mono, edges, isrOn>>

\* t2 = now; dt_s = (t2 - t1) / 1e9 and the tests on dt_s
CI_RiseStamp ==
  /\ isr = "ci_r_stamp"
  /\ t2' = mono
  /\ LET dt == UDiff(mono, t1)
     IN  IF dt > 0
         THEN IF dt <= DeadTimeCeiling
              THEN isr' = "ci_r_dt_getsec" /\ t1' = t1
              ELSE isr' = "ci_unlock" /\ t1' = mono
         ELSE isr' = "ci_unlock" /\ t1' = t1
  /\ UNCHANGED <<isrFrame, arrived, t1Slot, LEDTime, slotVars, lockVars, idx, tmp,
                 mono, edges, isrOn>>

\* deadTime[getSecNum()] += dt_s
CI_RiseDeadTime ==
  /\ isr = "ci_r_dt_add"
  /\ deadTime' = [deadTime EXCEPT ![idx] = @ + UDiff(t2, t1)]
  /\ isr' = "ci_r_dc_getsec"
  /\ UNCHANGED <<isrFrame, arrived, t1Slot, LEDTime, secNum, sec, deadCounts,
                 edgeVars, lockVars, idx,
                 tmp, mono, edges, isrOn>>

\* deadCounts[getSecNum()] += 1; t1 = 0
CI_RiseDeadCounts ==
  /\ isr = "ci_r_dc_add"
  /\ deadCounts' = [deadCounts EXCEPT ![idx] = @ + 1]
  /\ t1' = 0
  /\ isr' = "ci_unlock"
  /\ UNCHANGED <<isrFrame, arrived, t1Slot, LEDTime, secNum, sec, deadTime, t2,
                 lockVars, idx, tmp,
                 mono, edges, isrOn>>

\* "This state should be impossible": nothing but the debug print
CI_Impossible ==
  /\ isr = "ci_impossible"
  /\ isr' = "ci_unlock"
  /\ UNCHANGED <<isrFrame, arrived, t1Slot, LEDTime, slotVars, edgeVars, lockVars,
                 idx, tmp, mono,
                 edges, isrOn>>

\* pthread_mutex_unlock(&lock_count); the call returns, its locals end
CI_Unlock ==
  /\ isr = "ci_unlock"
  /\ lock_count' = "none"
  /\ isr' = "idle"
  /\ idx' = 0 /\ tmp' = 0
  /\ UNCHANGED <<isrFrame, arrived, t1Slot, LEDTime, slotVars, edgeVars, lock_sec,
                 mono, edges, isrOn>>

countInterrupt ==
  \/ CI_Lock \/ CI_GetSecNum \/ CI_FallLoad \/ CI_FallStore
  \/ CI_LedLoad \/ CI_LedStore \/ CI_FallStamp
  \/ CI_RiseStamp \/ CI_RiseDeadTime \/ CI_RiseDeadCounts \/ CI_Impossible
  \/ CI_Unlock

(***************************************************************************)
(* HVOn, HVOff (geiger.c).  Only the control thread calls them, so the     *)
(* test of HVisOn, the write of the gate pin and the write of HVisOn under *)
(* lock_hv are one step.  hvOnCount / hvOffCount count the transitions.    *)
(***************************************************************************)
HVOn ==
  IF ~HVisOn
  THEN /\ gatePin' = TRUE /\ HVisOn' = TRUE
       /\ hvOnCount' = hvOnCount + 1 /\ hvOffCount' = hvOffCount
  ELSE UNCHANGED hvVars

HVOff_GateLeftHigh ==
  IF HVisOn
  THEN /\ gatePin' = gatePin /\ HVisOn' = FALSE
       /\ hvOffCount' = hvOffCount + 1 /\ hvOnCount' = hvOnCount
  ELSE UNCHANGED hvVars

HVOff ==
  IF HVisOn
  THEN /\ gatePin' = FALSE /\ HVisOn' = FALSE
       /\ hvOffCount' = hvOffCount + 1 /\ hvOnCount' = hvOnCount
  ELSE UNCHANGED hvVars

(***************************************************************************)
(* main, startup (star.c 486-613)                                          *)
(***************************************************************************)
ctlFrame == <<isr, idx, tmp, mono, edges, inVars, fault, spiDelay, t1Slot,
              LEDTime>>

\* with the calls of setQFF, which only SetQFF changes, and the write
\* buffer and the output file, which only TickSample and TickPrint change
ctlFrameQ == <<ctlFrame, qffCalls, data, csv>>

\* getopt: -b, -l, -t or no option; the scenario runs the launch-day preset
ParseOptions(O) ==
  /\ ctl = "start"
  /\ \E o \in O :
       /\ profile # <<>> => o = "l"
       /\ geigerAlt' = Presets[o].alt
       /\ deadBand' = Presets[o].band
  /\ ctl' = "install"
  /\ UNCHANGED <<doPost, elapsed, curSec, bufSec, counts, rdDeadTime,
                 rdDeadCounts, altitude, hvSeen, inPost, ssArg,
                 ssCaller, numSecs, sigVars, hvVars, slotVars, edgeVars,
                 lockVars, isrOn, tick, hvTrace, postCount, arrived, resetIdle, ctlFrameQ>>

\* sigaction for SIGINT, SIGQUIT, SIGABRT, SIGTERM
InstallHandlers ==
  /\ ctl = "install"
  /\ handlers' = TRUE
  /\ ctl' = "open_csv"
  /\ UNCHANGED <<cfgVars, doPost, elapsed, curSec, bufSec, counts, rdDeadTime,
                 rdDeadCounts, altitude, hvSeen, inPost, ssArg,
                 ssCaller, numSecs, keepRunning, sigReceived, hvVars,
                 slotVars, edgeVars, lockVars, isrOn, tick, hvTrace,
                 postCount, arrived, resetIdle, ctlFrameQ>>

\* (a startup step that goes on after the operation failed)
StartupStep_IgnoreFailure(from, to, canFail) ==
  /\ ctl = from
  /\ \/ ctl' = to /\ fault' = fault
     \/ canFail /\ ctl' = to /\ fault' = from
  /\ UNCHANGED <<cfgVars, doPost, elapsed, curSec, bufSec, counts, rdDeadTime,
                 rdDeadCounts, altitude, hvSeen, inPost, ssArg,
                 ssCaller, numSecs, sigVars, hvVars, slotVars, edgeVars,
                 lockVars, isrOn, tick, hvTrace, postCount, arrived,
                 resetIdle, isr, idx, tmp, mono, edges, inVars, spiDelay,
                 qffCalls, data, csv, t1Slot, LEDTime>>

\* A startup step that only moves on, or ends the process with
\* exit(EXIT_FAILURE) when canFail and the operation fails
StartupStep(from, to, canFail) ==
  /\ ctl = from
  /\ \/ ctl' = to /\ fault' = fault
     \/ canFail /\ ctl' = "failed" /\ fault' = from
  /\ UNCHANGED <<cfgVars, doPost, elapsed, curSec, bufSec, counts, rdDeadTime,
                 rdDeadCounts, altitude, hvSeen, inPost, ssArg,
                 ssCaller, numSecs, sigVars, hvVars, slotVars, edgeVars,
                 lockVars, isrOn, tick, hvTrace, postCount, arrived,
                 resetIdle, isr, idx, tmp, mono, edges, inVars, spiDelay,
                 qffCalls, data, csv, t1Slot, LEDTime>>

\* fopen of the output file
OpenCsv == StartupStep("open_csv", "open_log", TRUE)

\* fopen of the log file
OpenLog == StartupStep("open_log", "set_running", TRUE)

\* keepRunning = true (star.c 560)
SetRunning ==
  /\ ctl = "set_running"
  /\ keepRunning' = TRUE
  /\ ctl' = "alt_setup"
  /\ UNCHANGED <<cfgVars, doPost, elapsed, curSec, bufSec, counts, rdDeadTime,
                 rdDeadCounts, altitude, hvSeen, inPost, ssArg,
                 ssCaller, numSecs, sigReceived, handlers, hvVars, slotVars,
                 edgeVars, lockVars, isrOn, tick, hvTrace, postCount,
                 arrived, resetIdle, ctlFrameQ>>

\* altimeterSetup() < 0 ends the process
AltimeterSetup == StartupStep("alt_setup", "set_qff", TRUE)

\* (startup without the call of setQFF)
SetQFF_Skipped == StartupStep("set_qff", "geiger_setup", FALSE)

\* getAltimeterCalibration, setQFF, sleep(2)
SetQFF ==
  /\ ctl = "set_qff"
  /\ qffCalls' = qffCalls + 1
  /\ ctl' = "geiger_setup"
  /\ UNCHANGED <<cfgVars, doPost, elapsed, curSec, bufSec, counts, rdDeadTime,
                 rdDeadCounts, altitude, hvSeen, inPost, ssArg,
                 ssCaller, numSecs, sigVars, hvVars, slotVars, edgeVars,
                 lockVars, isrOn, tick, hvTrace, postCount, arrived,
                 resetIdle, ctlFrame, data, csv>>

\* geigerSetup: HVisOn = false, LEDTime = 0, LEDisOn = false, the pins,
\* wiringPiISR, t1 = t2 = 0, the mutexes
geigerSetup ==
  /\ ctl = "geiger_setup"
  /\ HVisOn' = FALSE
  /\ LEDTime' = 0 /\ LEDisOn' = FALSE
  /\ isrOn' = TRUE
  /\ t1' = 0 /\ t2' = 0
  /\ lock_sec' = "none" /\ lock_count' = "none"
  /\ ctl' = "geiger_start"
  /\ UNCHANGED <<cfgVars, doPost, elapsed, curSec, bufSec, counts, rdDeadTime,
                 rdDeadCounts, altitude, hvSeen, inPost, ssArg,
                 ssCaller, numSecs, sigVars, gatePin, hvOnCount, hvOffCount,
                 slotVars, tick, hvTrace, postCount, arrived, resetIdle,
                 isr, idx, tmp, mono, edges, profile, fn, fnArg, fnRet,
                 led, ledReg, flashes, fault, spiDelay, t1Slot, qffCalls,
                 data, csv>>

\* geigerStart: keepRunning = true, the LED thread is created
geigerStart ==
  /\ ctl = "geiger_start"
  /\ keepRunning' = TRUE
  /\ ctl' = "loop_init"
  /\ UNCHANGED <<cfgVars, doPost, elapsed, curSec, bufSec, counts, rdDeadTime,
                 rdDeadCounts, altitude, hvSeen, inPost, ssArg,
                 ssCaller, numSecs, sigReceived, handlers, hvVars, slotVars,
                 edgeVars, lockVars, isrOn, tick, hvTrace, postCount,
                 arrived, resetIdle, ctlFrameQ>>

\* waitNextSec(); start_time = getTimeMS(); curSec = 0; geigerReset() is entered
LoopInit ==
  /\ ctl = "loop_init"
  /\ elapsed' = 0 /\ curSec' = 0
  /\ ssArg' = 0 /\ ssCaller' = "reset"
  /\ resetIdle' = IF isr = "idle" THEN "pending" ELSE "no"
  /\ ctl' = "ss_lock_sec"
  /\ UNCHANGED <<cfgVars, doPost, bufSec, counts, rdDeadTime, rdDeadCounts,
                 altitude, hvSeen, inPost, numSecs, sigVars, hvVars,
                 slotVars, edgeVars, lockVars, isrOn, tick, hvTrace,
                 postCount, arrived, ctlFrameQ>>

(***************************************************************************)
(* setSecNum(ssArg), called by the tick and by geigerReset                 *)
(***************************************************************************)
ssFrame == <<cfgVars, doPost, elapsed, curSec, bufSec, counts, rdDeadTime,
             rdDeadCounts, altitude, hvSeen, inPost, ssArg, ssCaller,
             sigVars, hvVars, edgeVars, isrOn, tick, hvTrace, postCount,
             arrived, resetIdle, ctlFrameQ>>

\* pthread_mutex_lock(&lock_sec)
SS_LockSec ==
  /\ ctl = "ss_lock_sec" /\ lock_sec = "none"
  /\ lock_sec' = "ctl"
  /\ ctl' = "ss_lock_count"
  /\ UNCHANGED <<ssFrame, numSecs, slotVars, lock_count>>

\* (setSecNum without waiting for lock_count)
SS_LockCount_NoWait ==
  /\ ctl = "ss_lock_count"
  /\ lock_count' = "ctl"
  /\ numSecs' = ssArg % size
  /\ ctl' = "ss_zero"
  /\ UNCHANGED <<ssFrame, slotVars, lock_sec>>

\* pthread_mutex_lock(&lock_count); numSecs = seconds % size
SS_LockCount ==
  /\ ctl = "ss_lock_count" /\ lock_count = "none"
  /\ lock_count' = "ctl"
  /\ numSecs' = ssArg % size
  /\ ctl' = "ss_zero"
  /\ UNCHANGED <<ssFrame, slotVars, lock_sec>>

\* (setSecNum zeroing the slot whether or not it is the active one)
SS_Zero_Always ==
  /\ ctl = "ss_zero"
  /\ sec' = [sec EXCEPT ![numSecs] = 0]
  /\ deadTime' = [deadTime EXCEPT ![numSecs] = 0]
  /\ deadCounts' = [deadCounts EXCEPT ![numSecs] = 0]
  /\ ctl' = "ss_activate"
  /\ UNCHANGED <<ssFrame, numSecs, secNum, lockVars>>

\* (setSecNum zeroing the slot it leaves instead of the slot it enters)
SS_Zero_OldSlot ==
  /\ ctl = "ss_zero"
  /\ IF numSecs # secNum
     THEN /\ sec' = [sec EXCEPT ![secNum] = 0]
          /\ deadTime' = [deadTime EXCEPT ![secNum] = 0]
          /\ deadCounts' = [deadCounts EXCEPT ![secNum] = 0]
     ELSE UNCHANGED <<sec, deadTime, deadCounts>>
  /\ ctl' = "ss_activate"
  /\ UNCHANGED <<ssFrame, numSecs, secNum, lockVars>>

\* if (numSecs != secNum) the slot numSecs is zeroed
SS_Zero ==
  /\ ctl = "ss_zero"
  /\ IF numSecs # secNum
     THEN /\ sec' = [sec EXCEPT ![numSecs] = 0]
          /\ deadTime' = [deadTime EXCEPT ![numSecs] = 0]
          /\ deadCounts' = [deadCounts EXCEPT ![numSecs] = 0]
     ELSE UNCHANGED <<sec, deadTime, deadCounts>>
  /\ ctl' = "ss_activate"
  /\ UNCHANGED <<ssFrame, numSecs, secNum, lockVars>>

\* secNum = numSecs
SS_Activate ==
  /\ ctl = "ss_activate"
  /\ secNum' = numSecs
  /\ ctl' = "ss_unlock"
  /\ UNCHANGED <<ssFrame, numSecs, sec, deadTime, deadCounts, lockVars>>

\* both mutexes are released; return to the caller
SS_Unlock ==
  /\ ctl = "ss_unlock"
  /\ lock_sec' = "none" /\ lock_count' = "none"
  /\ ctl' = IF ssCaller = "reset" THEN "gr_zero" ELSE "tick_sample"
  /\ numSecs' = 0
  /\ UNCHANGED <<ssFrame, slotVars>>

setSecNum == SS_LockSec \/ SS_LockCount \/ SS_Zero \/ SS_Activate \/ SS_Unlock

(***************************************************************************)
(* geigerReset, after its setSecNum(0): the counts are zeroed and the edge *)
(* state is cleared, without a lock                                        *)
(***************************************************************************)
grFrame == <<cfgVars, doPost, elapsed, curSec, bufSec, counts, rdDeadTime,
             rdDeadCounts, altitude, hvSeen, inPost, ssArg, ssCaller,
             numSecs, sigVars, hvVars, lockVars, isrOn, tick, hvTrace,
             postCount, ctlFrameQ>>

\* for (i = 0; i < size; i++) sec[i] = 0
GR_Zero ==
  /\ ctl = "gr_zero"
  /\ sec' = ZeroSlots
  /\ ctl' = "gr_t2"
  /\ UNCHANGED <<grFrame, arrived, resetIdle, secNum, deadTime, deadCounts,
                 edgeVars>>

\* t1 = t2 = 0: the store to t2
GR_ClearT2 ==
  /\ ctl = "gr_t2"
  /\ t2' = 0
  /\ ctl' = "gr_t1"
  /\ UNCHANGED <<grFrame, arrived, resetIdle, slotVars, t1>>

\* t1 = t2 = 0: the store to t1; return to the caller.  History: the edges
\* delivered since the reset are counted from here, and resetIdle is "yes"
\* when the latest reset has returned and no countInterrupt was in progress
\* from its call to its return.
GR_ClearT1 ==
  /\ ctl = "gr_t1"
  /\ t1' = 0
  /\ arrived' = 0
  /\ resetIdle' = IF resetIdle = "pending" /\ isr = "idle" THEN "yes" ELSE "no"
  /\ ctl' = IF inPost THEN "post_done" ELSE "loop_test"
  /\ UNCHANGED <<grFrame, slotVars, t2>>

geigerReset == GR_Zero \/ GR_ClearT2 \/ GR_ClearT1

(***************************************************************************)
(* main, the control loop (star.c 616-737)                                 *)
(***************************************************************************)
TickLimit == IF profile = <<>> THEN MaxTicks ELSE Len(profile)

\* The altitude calcAltitude returns in this tick
AltInputs ==
  IF profile = <<>>
  THEN {geigerAlt - deadBand - 1, geigerAlt - deadBand, geigerAlt,
        geigerAlt + 1}
  ELSE {profile[tick]}

\* while (keepRunning)
LoopTest ==
  /\ ctl = "loop_test"
  /\ IF keepRunning
     THEN tick < TickLimit /\ ctl' = "tick_read"
     ELSE ctl' = "shutdown_hv"
  /\ UNCHANGED <<cfgVars, doPost, elapsed, curSec, bufSec, counts, rdDeadTime,
                 rdDeadCounts, altitude, hvSeen, inPost, ssArg,
                 ssCaller, numSecs, sigVars, hvVars, slotVars, edgeVars,
                 lockVars, isrOn, tick, hvTrace, postCount, arrived, resetIdle, ctlFrameQ>>

\* elapsed; counts = getCounts(curSec); deadTime = getDeadTime(curSec);
\* deadCounts = getDeadCounts(curSec); curSec = elapsed; setSecNum(curSec)
\* is entered
TickRead ==
  /\ ctl = "tick_read"
  /\ counts' = sec[curSec % size]
  /\ rdDeadTime' = deadTime[curSec % size]
  /\ rdDeadCounts' = deadCounts[curSec % size]
  /\ curSec' = elapsed
  /\ ssArg' = elapsed /\ ssCaller' = "tick"
  /\ tick' = tick + 1
  /\ ctl' = "ss_lock_sec"
  /\ UNCHANGED <<cfgVars, doPost, elapsed, bufSec, altitude, hvSeen,
                 inPost, numSecs, sigVars, hvVars, slotVars, edgeVars,
                 lockVars, isrOn, hvTrace, postCount, arrived, resetIdle, ctlFrameQ>>

\* bufSec = curSec % buffer_seconds; the record of this second; the
\* altimeter is read and the altitude computed; getHVOn()
TickSample ==
  /\ ctl = "tick_sample"
  /\ bufSec' = curSec % buffer_seconds
  /\ data' = [data EXCEPT ![curSec % buffer_seconds] = tick]
  /\ \E a \in AltInputs : altitude' = a
  /\ hvSeen' = HVisOn
  /\ ctl' = "tick_decide"
  /\ UNCHANGED <<cfgVars, doPost, elapsed, curSec, counts, rdDeadTime,
                 rdDeadCounts, inPost, ssArg, ssCaller, numSecs,
                 sigVars, hvVars, slotVars, edgeVars, lockVars, isrOn, tick,
                 hvTrace, postCount, arrived, resetIdle, ctlFrame, qffCalls,
                 csv>>

\* data[bufSec].altitude > geigerAlt
AboveThreshold_Inclusive == altitude >= geigerAlt

AboveThreshold == altitude > geigerAlt

\* data[bufSec].altitude < (geigerAlt - deadBand)
BelowBand_NoDeadband == altitude < geigerAlt

BelowBand_Inclusive == altitude <= geigerAlt - deadBand

BelowBand == altitude < geigerAlt - deadBand

\* (turning HV on above the threshold leaves doPost as it is)
TickDecide_KeepPost ==
  /\ ctl = "tick_decide"
  /\ IF ~HVisOn
     THEN IF AboveThreshold
          THEN /\ HVOn
               /\ ctl' = "tick_print"
               /\ UNCHANGED <<doPost, inPost, postCount>>
          ELSE IF doPost /\ BelowBand
               THEN /\ HVOn
                    /\ inPost' = TRUE
                    /\ postCount' = postCount + 1
                    /\ ctl' = "post_wait"
                    /\ UNCHANGED doPost
               ELSE /\ ctl' = "tick_print"
                    /\ UNCHANGED <<hvVars, doPost, inPost, postCount>>
     ELSE IF BelowBand
          THEN /\ HVOff
               /\ ctl' = "tick_print"
               /\ UNCHANGED <<doPost, inPost, postCount>>
          ELSE /\ ctl' = "tick_print"
               /\ UNCHANGED <<hvVars, doPost, inPost, postCount>>
  /\ UNCHANGED <<cfgVars, elapsed, curSec, bufSec, counts, rdDeadTime,
                 rdDeadCounts, altitude, hvSeen, ssArg, ssCaller, numSecs,
                 sigVars, slotVars, edgeVars, lockVars, isrOn, tick, hvTrace,
                 arrived, resetIdle, ctlFrameQ>>

\* (the Active -> Armed branch also clears the counting buffers)
TickDecide_ResetOnOff ==
  /\ ctl = "tick_decide"
  /\ IF ~HVisOn
     THEN /\ IF AboveThreshold
             THEN /\ HVOn
                  /\ doPost' = FALSE
                  /\ ctl' = "tick_print"
                  /\ UNCHANGED <<inPost, postCount>>
             ELSE IF doPost /\ BelowBand
                  THEN /\ HVOn
                       /\ inPost' = TRUE
                       /\ postCount' = postCount + 1
                       /\ ctl' = "post_wait"
                       /\ UNCHANGED doPost
                  ELSE /\ ctl' = "tick_print"
                       /\ UNCHANGED <<hvVars, doPost, inPost, postCount>>
          /\ UNCHANGED slotVars
     ELSE IF BelowBand
          THEN /\ HVOff
               /\ ctl' = "tick_print"
               /\ sec' = ZeroSlots /\ deadTime' = ZeroSlots
               /\ deadCounts' = ZeroSlots
               /\ UNCHANGED <<secNum, t1, t2>>
               /\ UNCHANGED <<doPost, inPost, postCount>>
          ELSE /\ ctl' = "tick_print"
               /\ UNCHANGED <<hvVars, doPost, inPost, postCount, slotVars>>
  /\ UNCHANGED <<cfgVars, elapsed, curSec, bufSec, counts, rdDeadTime,
                 rdDeadCounts, altitude, hvSeen, ssArg, ssCaller, numSecs,
                 sigVars, edgeVars, lockVars, isrOn, tick, hvTrace,
                 arrived, resetIdle, ctlFrameQ>>

\* The altitude-gated decision (star.c 671-711)
TickDecide ==
  /\ ctl = "tick_decide"
  /\ IF ~HVisOn
     THEN IF AboveThreshold
          THEN /\ HVOn
               /\ doPost' = FALSE
               /\ ctl' = "tick_print"
               /\ UNCHANGED <<inPost, postCount>>
          ELSE IF doPost /\ BelowBand
               THEN /\ HVOn
                    /\ inPost' = TRUE
                    /\ postCount' = postCount + 1
                    /\ ctl' = "post_wait"
                    /\ UNCHANGED doPost
               ELSE /\ ctl' = "tick_print"
                    /\ UNCHANGED <<hvVars, doPost, inPost, postCount>>
     ELSE IF BelowBand
          THEN /\ HVOff
               /\ ctl' = "tick_print"
               /\ UNCHANGED <<doPost, inPost, postCount>>
          ELSE /\ ctl' = "tick_print"
               /\ UNCHANGED <<hvVars, doPost, inPost, postCount>>
  /\ UNCHANGED <<cfgVars, elapsed, curSec, bufSec, counts, rdDeadTime,
                 rdDeadCounts, altitude, hvSeen, ssArg, ssCaller, numSecs,
                 sigVars, slotVars, edgeVars, lockVars, isrOn, tick, hvTrace,
                 arrived, resetIdle, ctlFrameQ>>

\* POST: the loop for (i = 0; i < 30; i++) if (keepRunning) waitNextSec();
\* has run (the interrupt thread and the signal handler run while the control
\* thread is in it); then HVOff(); start_time = getTimeMS(); curSec = 0;
\* and geigerReset() is entered
PostOff ==
  /\ ctl = "post_wait"
  /\ HVOff
  /\ elapsed' = 0 /\ curSec' = 0
  /\ ssArg' = 0 /\ ssCaller' = "reset"
  /\ resetIdle' = IF isr = "idle" THEN "pending" ELSE "no"
  /\ ctl' = "ss_lock_sec"
  /\ UNCHANGED <<cfgVars, doPost, bufSec, counts, rdDeadTime, rdDeadCounts,
                 altitude, hvSeen, inPost, numSecs, sigVars, slotVars,
                 edgeVars, lockVars, isrOn, tick, hvTrace, postCount,
                 arrived, ctlFrameQ>>

\* (the self-test ends without clearing doPost)
PostDone_KeepFlag ==
  /\ ctl = "post_done"
  /\ inPost' = FALSE
  /\ ctl' = "tick_print"
  /\ UNCHANGED <<cfgVars, doPost, elapsed, curSec, bufSec, counts,
                 rdDeadTime, rdDeadCounts, altitude, hvSeen, ssArg, ssCaller,
                 numSecs, sigVars, hvVars, slotVars, edgeVars, lockVars,
                 isrOn, tick, hvTrace, postCount, arrived, resetIdle,
                 ctlFrameQ>>

\* POST: doPost = false
PostDone ==
  /\ ctl = "post_done"
  /\ doPost' = FALSE /\ inPost' = FALSE
  /\ ctl' = "tick_print"
  /\ UNCHANGED <<cfgVars, elapsed, curSec, bufSec, counts, rdDeadTime,
                 rdDeadCounts, altitude, hvSeen, ssArg, ssCaller,
                 numSecs, sigVars, hvVars, slotVars, edgeVars, lockVars,
                 isrOn, tick, hvTrace, postCount, arrived, resetIdle, ctlFrameQ>>

\* The periodic write (when bufSec is the last entry of the write buffer, the
\* whole buffer is printed to the output file) and the screen line, which
\* calls getSecNum()
TickPrint ==
  /\ ctl = "tick_print" /\ lock_sec = "none"
  /\ csv' = IF bufSec = buffer_seconds - 1
            THEN csv \o [i \in 1 .. buffer_seconds |-> data[i - 1]]
            ELSE csv
  /\ ctl' = "tick_wait"
  /\ UNCHANGED <<cfgVars, doPost, elapsed, curSec, bufSec, counts, rdDeadTime,
                 rdDeadCounts, altitude, hvSeen, inPost, ssArg,
                 ssCaller, numSecs, sigVars, hvVars, slotVars, edgeVars,
                 lockVars, isrOn, tick, hvTrace, postCount, arrived,
                 resetIdle, ctlFrame, qffCalls, data>>

\* waitNextSec() at the end of the tick: the next tick starts d seconds
\* after this one started
TickWait(S) ==
  /\ ctl = "tick_wait"
  /\ \E d \in S : elapsed' = elapsed + d
  /\ hvTrace' = IF profile = <<>> THEN hvTrace ELSE Append(hvTrace, HVisOn)
  /\ ctl' = "loop_test"
  /\ UNCHANGED <<cfgVars, doPost, curSec, bufSec, counts, rdDeadTime,
                 rdDeadCounts, altitude, hvSeen, inPost, ssArg,
                 ssCaller, numSecs, sigVars, hvVars, slotVars, edgeVars,
                 lockVars, isrOn, tick, postCount, arrived, resetIdle, ctlFrameQ>>

(***************************************************************************)
(* main, after the loop (star.c 739-780)                                   *)
(***************************************************************************)
\* if (getHVOn() == true) HVOff();
ShutdownHV ==
  /\ ctl = "shutdown_hv"
  /\ HVOff
  /\ ctl' = "geiger_stop"
  /\ UNCHANGED <<cfgVars, doPost, elapsed, curSec, bufSec, counts, rdDeadTime,
                 rdDeadCounts, altitude, hvSeen, inPost, ssArg,
                 ssCaller, numSecs, sigVars, slotVars, edgeVars, lockVars,
                 isrOn, tick, hvTrace, postCount, arrived, resetIdle, ctlFrameQ>>

\* geigerStop: keepRunning = false; HVOff(); the mutexes are destroyed
geigerStop ==
  /\ ctl = "geiger_stop"
  /\ keepRunning' = FALSE
  /\ HVOff
  /\ ctl' = "close"
  /\ UNCHANGED <<cfgVars, doPost, elapsed, curSec, bufSec, counts, rdDeadTime,
                 rdDeadCounts, altitude, hvSeen, inPost, ssArg,
                 ssCaller, numSecs, sigReceived, handlers, slotVars, edgeVars,
                 lockVars, isrOn, tick, hvTrace, postCount, arrived, resetIdle, ctlFrameQ>>

\* fclose of both files; return EXIT_SUCCESS
CloseFiles ==
  /\ ctl = "close"
  /\ ctl' = "exited"
  /\ UNCHANGED <<cfgVars, doPost, elapsed, curSec, bufSec, counts, rdDeadTime,
                 rdDeadCounts, altitude, hvSeen, inPost, ssArg,
                 ssCaller, numSecs, sigVars, hvVars, slotVars, edgeVars,
                 lockVars, isrOn, tick, hvTrace, postCount, arrived, resetIdle, ctlFrameQ>>

(***************************************************************************)
(* The program                                                             *)
(***************************************************************************)
Alive == ctl \notin {"exited", "failed"}

Startup(O) ==
  \/ ParseOptions(O) \/ InstallHandlers \/ OpenCsv \/ OpenLog \/ SetRunning
  \/ AltimeterSetup \/ SetQFF \/ geigerSetup \/ geigerStart \/ LoopInit

Tick(S) ==
  \/ LoopTest \/ TickRead \/ TickSample \/ TickDecide \/ PostOff
  \/ PostDone \/ TickPrint \/ TickWait(S)

Shutdown == ShutdownHV \/ geigerStop \/ CloseFiles

\* The program with options O, tick intervals S and edge intervals D
Program(O, S, D) ==
  \/ Startup(O) \/ Tick(S) \/ setSecNum \/ geigerReset \/ Shutdown
  \/ breakHandler
  \/ EdgeArrives(D)
  \/ (Alive /\ countInterrupt)

Next == Program(Options, Steps, DtSet)

Spec == Init /\ [][Next]_vars

\* The program started under the tethered-flight preset with the gate pin
\* at either level
NextGate == Program({"t"}, Steps, DtSet)

SpecGate == InitGate /\ [][NextGate]_vars

\* The seconds from one tick to the next when the clocks disagree.
\* waitNextSec sleeps to the next whole second of CLOCK_MONOTONIC, while
\* elapsed is getTimeMS() - start_time on CLOCK_REALTIME, in ms, taken some
\* time after the wake-up: elapsed can read 0.999 where a second has passed
\* (the whole second repeats), or more than a second later (it skips).
JitterSteps == {0, 1, 2}

\* The program under the tethered-flight preset with such ticks
NextJitter == Program({"t"}, JitterSteps, DtSet)

SpecJitter == Init /\ [][NextJitter]_vars

\* What a call of a function on its own leaves alone: the whole program
progVars == <<cfgVars, ctlVars, sigVars, hvVars, slotVars, edgeVars,
              lockVars, isrVars, profile, LEDTime, LEDisOn, led, ledReg, flashes, tick,
              arrived, t1Slot, resetIdle, hvTrace,
              postCount>>

\* getIndex(numIndex) called with any index of the range
InitGetIndex ==
  /\ InitProgram /\ profile = <<>>
  /\ fn = "" /\ fnRet = 0
  /\ \E i \in -MaxIndex .. MaxIndex : fnArg = <<i>>

Call_getIndex ==
  /\ fn = ""
  /\ fn' = "getIndex"
  /\ fnRet' = getIndex(fnArg[1])
  /\ UNCHANGED <<fnArg, progVars>>

SpecGetIndex == InitGetIndex /\ [][Call_getIndex]_vars

\* sumCounts(numSecs) called with a window of WindowInputs, when one slot
\* holds one count or none does
InitSumCounts ==
  /\ InitRest /\ profile = <<>>
  /\ fn = "" /\ fnRet = 0
  /\ secNum \in SecNumInputs
  /\ sec \in {ZeroSlots} \cup {[ZeroSlots EXCEPT ![j] = 1] : j \in Slots}
  /\ \E w \in WindowInputs : fnArg = <<w>>

Call_sumCounts ==
  /\ fn = ""
  /\ fn' = "sumCounts"
  /\ fnRet' = sumCounts(fnArg[1])
  /\ UNCHANGED <<fnArg, progVars>>

SpecSumCounts == InitSumCounts /\ [][Call_sumCounts]_vars

(***************************************************************************)
(* countInterrupt on a train of edges, while the control thread waits for  *)
(* the next second in the first tick of a balloon-preset run, the high     *)
(* voltage on.  The timestamp of an edge is tv_sec * 1000000000 + tv_nsec, *)
(* computed in the width of long: where long has 32 bits the product       *)
(* overflows and a timestamp can be below the one before it.               *)
(***************************************************************************)
\* 10 ms, in 100 us: the time from one pulse to the next
Gap == 100

\* The trains: the intervals, in 100 us, from each edge to the next (the
\* first from the start of the clock).  An interval of 3, 9, 2 or 50 is
\* within the 5 ms of countInterrupt, 51 and 60 are above it, 0 is a
\* repeated timestamp and -5 a timestamp that went backwards.
Train3Dt == <<Gap, 3, Gap, 9, Gap, 2>>

Train3DtShort == <<Gap, 3, Gap, 9, 2>>

PulseTrains ==
  { Train3Dt, Train3DtShort,
    <<Gap, 60, 3, Gap, 3>>, <<Gap, 51, 50>>, <<Gap, 50, Gap, 51>>,
    <<Gap, 0, 3>>, <<Gap, -5, 3>>, <<Gap, 0, -5, 60, 3>> }

\* The program under option -b with the high voltage on after the first
\* tick, but for the position of the control thread, the second and the slots
CountingRest ==
  /\ geigerAlt = Presets.b.alt /\ deadBand = Presets.b.band
  /\ keepRunning = TRUE /\ sigReceived = 0
  /\ handlers = TRUE /\ doPost = FALSE
  /\ bufSec = 0
  /\ counts = 0 /\ rdDeadTime = 0 /\ rdDeadCounts = 0
  /\ altitude = 1 /\ hvSeen = FALSE /\ inPost = FALSE
  /\ ssCaller = "tick" /\ numSecs = 0 /\ fault = ""
  /\ qffCalls = 1
  /\ data = [i \in 0 .. buffer_seconds - 1 |-> IF i = 0 THEN 1 ELSE 0]
  /\ csv = <<>> /\ spiDelay = 1000
  /\ HVisOn = TRUE /\ gatePin = TRUE
  /\ t1 = 0 /\ t2 = 0
  /\ lock_sec = "none" /\ lock_count = "none" /\ isrOn = TRUE
  /\ isr = "idle" /\ idx = 0 /\ tmp = 0 /\ mono = 1
  /\ edges = 0 /\ arrived = 0 /\ resetIdle = "yes"
  /\ hvTrace = <<>> /\ hvOnCount = 1 /\ hvOffCount = 0 /\ postCount = 0
  /\ t1Slot = 0
  /\ LEDTime = 0 /\ LEDisOn = FALSE /\ ledReg = 0 /\ flashes = 0

\* The program as TickPrint of the first tick leaves it under option -b
Counting ==
  /\ CountingRest
  /\ ctl = "tick_wait" /\ tick = 1
  /\ elapsed = 0 /\ curSec = 0 /\ ssArg = 0
  /\ secNum = 0 /\ sec = ZeroSlots /\ deadTime = ZeroSlots
  /\ deadCounts = ZeroSlots

InitPulses ==
  /\ Counting /\ profile = <<>> /\ led = "none"
  /\ fn = "" /\ fnRet = 0
  /\ fnArg \in PulseTrains

\* The next edge of the train arrives
EdgeOfTrain ==
  /\ edges < Len(fnArg)
  /\ EdgeArrivesUpTo({fnArg[edges + 1]}, Len(fnArg))

NextPulses == EdgeOfTrain \/ (ctl = "tick_wait" /\ countInterrupt)

SpecPulses == InitPulses /\ [][NextPulses]_vars

(***************************************************************************)
(* blinkLED, the LED thread that geigerStart creates, beside countInterrupt *)
(* on a train of pulses.  The thread shares LEDTime with countInterrupt and *)
(* nothing with the control thread, takes no lock, and its sleeps are only  *)
(* delays, so that its steps fall anywhere between those of countInterrupt. *)
(***************************************************************************)
ledFrame == <<cfgVars, ctlVars, sigVars, hvVars, slotVars, edgeVars, lockVars,
              isrVars, profile, fn, fnArg, fnRet, tick, arrived, resetIdle,
              hvTrace, postCount, t1Slot>>

\* while (keepRunning) and the tests of LEDTime and LEDisOn; LEDOff() when
\* the LED is on, and after the loop
BL_Test ==
  /\ led = "test"
  /\ IF ~keepRunning THEN LEDisOn' = FALSE /\ led' = "exited"
     ELSE IF LEDTime > 0 /\ ~LEDisOn THEN LEDisOn' = LEDisOn /\ led' = "on"
     ELSE LEDisOn /\ LEDisOn' = FALSE /\ led' = led
  /\ UNCHANGED <<ledFrame, LEDTime, ledReg, flashes>>

\* LEDOn(): a flash starts
BL_On ==
  /\ led = "on"
  /\ LEDisOn' = TRUE
  /\ flashes' = flashes + 1
  /\ led' = "load"
  /\ UNCHANGED <<ledFrame, LEDTime, ledReg>>

\* LEDTime -= flashTime : the load
BL_Load ==
  /\ led = "load"
  /\ ledReg' = LEDTime
  /\ led' = "store"
  /\ UNCHANGED <<ledFrame, LEDTime, LEDisOn, flashes>>

\* LEDTime -= flashTime : the store; nanosleep for flashTime ms
BL_Store ==
  /\ led = "store"
  /\ LEDTime' = ledReg - flashTime
  /\ ledReg' = 0
  /\ led' = "test"
  /\ UNCHANGED <<ledFrame, LEDisOn, flashes>>

blinkLED == BL_Test \/ BL_On \/ BL_Load \/ BL_Store

\* One, two or three pulses of 0.3 ms, 10 ms apart
LedTrains ==
  {<<Gap, 3>>, <<Gap, 3, Gap, 3>>, <<Gap, 3, Gap, 3, Gap, 3>>}

\* The LED thread runs; the high voltage is on after the first tick
InitLED ==
  /\ Counting /\ profile = <<>> /\ led = "test"
  /\ fn = "" /\ fnRet = 0
  /\ fnArg \in LedTrains

NextLED == EdgeOfTrain \/ (ctl = "tick_wait" /\ countInterrupt) \/ blinkLED

SpecLED == InitLED /\ [][NextLED]_vars

(***************************************************************************)
(* setSecNum called by a tick after the first minute, when the slots hold  *)
(* the counts of the minute before, with countInterrupt beside it.  The    *)
(* write buffer and the output file are left as after the first tick.      *)
(***************************************************************************)
\* The seconds setSecNum is called with
SecondInputs == {1, 60, 61, 119}

\* A minute of two pulses, of 0.3 ms each, in every second
FilledSlots == [s \in Slots |-> 2]

FilledTime == [s \in Slots |-> 6]

\* The tick of second s calls setSecNum(s); the active index is that of the
\* second before, or already that of s, or that of two seconds before when
\* the second of the tick has skipped one
InitSetSecNum ==
  /\ CountingRest /\ profile = <<>> /\ NoCall /\ led = "none"
  /\ ctl = "ss_lock_sec"
  /\ \E s \in SecondInputs :
       /\ ssArg = s /\ curSec = s /\ elapsed = s /\ tick = s + 1
       /\ secNum \in {getIndex(s - 2), getIndex(s - 1), getIndex(s)}
  /\ \/ sec = FilledSlots /\ deadTime = FilledTime
        /\ deadCounts = FilledSlots
     \/ sec = ZeroSlots /\ deadTime = ZeroSlots /\ deadCounts = ZeroSlots

NextSetSecNum ==
  \/ setSecNum
  \/ EdgeArrives(DtSet)
  \/ (ctl # "tick_wait" /\ countInterrupt)

SpecSetSecNum == InitSetSecNum /\ [][NextSetSecNum]_vars

(***************************************************************************)
(* PiSPI.c and MS5607.c: the transport operations of the altimeter, each   *)
(* called on its own.  A transfer io is what the ioctl of SPIDataRW does:  *)
(* it fails (ok = FALSE, the buffer is left as it was and -1 is returned)  *)
(* or it puts the received bytes rx in the buffer and returns the length.  *)
(***************************************************************************)
\* unsigned char buffer[5] = {0}
ZeroBuffer == [k \in 0 .. 4 |-> 0]

\* The transfers of len bytes: the failed one, and the ones that receive len
\* bytes (the first is the answer to the command byte)
Transfers(len) ==
  {[ok |-> FALSE, rx |-> ZeroBuffer]} \cup
  {[ok |-> TRUE, rx |-> r] :
     r \in {b \in [0 .. 4 -> ByteInputs \cup {0}] :
              b[0] = 0 /\ \A k \in len .. 4 : b[k] = 0}}

\* SPIDataRW(CHANNEL, data, len): the buffer after the call and the value
\* returned
SPIDataRW(buf, len, io) ==
  IF io.ok
  THEN [ret |-> len,
        data |-> [k \in 0 .. 4 |-> IF k < len THEN io.rx[k] ELSE buf[k]]]
  ELSE [ret |-> -1, data |-> buf]

\* altimeterReset(): the delay it leaves
altimeterReset(io) ==
  LET buffer == [ZeroBuffer EXCEPT ![0] = CMD_RESET]
      rw == SPIDataRW(buffer, 1, io)
  IN  [spiDelay |-> 3000]

\* altimeterCalibration(coeffNum): the value returned and the delay it
\* leaves.  The result of SPIDataRW is stored in ret and not used.
altimeterCalibration(coeffNum, io) ==
  LET c == coeffNum % 8
      buffer == [ZeroBuffer EXCEPT ![0] = CMD_PROM_RD + (c * 2),
                                   ![1] = CMD_ADC_READ, ![2] = CMD_ADC_READ]
      rw == SPIDataRW(buffer, 3, io)
      rC == 256 * rw.data[1] + rw.data[2]
  IN  [value |-> rC, spiDelay |-> 0]

\* altimeterADC(cmd), called when the delay is delayOld: the value returned
\* and the delay it leaves.  The results of both SPIDataRW calls are stored
\* in ret and not used.
altimeterADC(cmd, delayOld, io1, io2) ==
  LET delay == cmd % 16
      conv == IF delay = CMD_ADC_256 THEN 900
              ELSE IF delay = CMD_ADC_512 THEN 3000
              ELSE IF delay = CMD_ADC_1024 THEN 4000
              ELSE IF delay = CMD_ADC_2048 THEN 6000
              ELSE IF delay = CMD_ADC_4096 THEN 10000
              ELSE 1000
      b0 == [ZeroBuffer EXCEPT ![0] = CMD_ADC_CONV + cmd]
      rw1 == SPIDataRW(b0, 1, io1)
      b1 == [rw1.data EXCEPT ![0] = CMD_ADC_READ, ![1] = CMD_ADC_READ,
                             ![2] = CMD_ADC_READ, ![3] = CMD_ADC_READ]
      rw2 == SPIDataRW(b1, 4, io2)
      temp == 65536 * rw2.data[1] + 256 * rw2.data[2] + rw2.data[3]
  IN  [value |-> temp, spiDelay |-> delayOld]

\* What a call of a transport operation leaves alone
altFrame == <<cfgVars, ctl, doPost, elapsed, curSec, bufSec, counts,
              rdDeadTime, rdDeadCounts, altitude, hvSeen, inPost, ssArg,
              ssCaller, numSecs, fault, qffCalls, data, csv, sigVars, hvVars,
              slotVars,
              edgeVars, lockVars, isrVars, profile, LEDTime, LEDisOn, led, ledReg, flashes, tick,
              arrived, t1Slot, resetIdle, hvTrace,
              postCount>>

\* SPISetDelay(delay)
Call_SPISetDelay ==
  /\ \E delay \in DelayInputs :
       /\ spiDelay' = delay
       /\ fnArg' = <<delay>>
  /\ fn' = "SPISetDelay" /\ fnRet' = 0
  /\ UNCHANGED altFrame

\* The functions return an unsigned number and have no other output: the
\* caller is told of no fault (fault is FALSE in every result)
Call_altimeterReset ==
  /\ \E io \in Transfers(1) :
       /\ spiDelay' = altimeterReset(io).spiDelay
       /\ fnArg' = <<io>>
  /\ fn' = "altimeterReset" /\ fnRet' = 0
  /\ UNCHANGED altFrame

Call_altimeterCalibration ==
  /\ \E coeffNum \in CoeffInputs, io \in Transfers(3) :
       LET r == altimeterCalibration(coeffNum, io)
       IN  /\ spiDelay' = r.spiDelay
           /\ fnRet' = [fault |-> FALSE, value |-> r.value]
           /\ fnArg' = <<coeffNum, io>>
  /\ fn' = "altimeterCalibration"
  /\ UNCHANGED altFrame

Call_altimeterADC ==
  /\ \E cmd \in CmdInputs, io1 \in Transfers(1), io2 \in Transfers(4) :
       LET r == altimeterADC(cmd, spiDelay, io1, io2)
       IN  /\ spiDelay' = r.spiDelay
           /\ fnRet' = [fault |-> FALSE, value |-> r.value]
           /\ fnArg' = <<cmd, io1, io2>>
  /\ fn' = "altimeterADC"
  /\ UNCHANGED altFrame

NextAltimeter ==
  \/ Call_SPISetDelay \/ Call_altimeterReset \/ Call_altimeterCalibration
  \/ Call_altimeterADC

SpecAltimeter == Init /\ [][NextAltimeter]_vars

(***************************************************************************)
(* MS5607.c: the compensation of the raw samples.  The C code computes in  *)
(* double; here every value is an exact fraction [n, d] in lowest terms    *)
(* with d > 0 (the inputs above keep every value exact in a double too).   *)
(***************************************************************************)
Abs(x) == IF x < 0 THEN -x ELSE x

RECURSIVE GCD(_, _)
GCD(a, b) == IF b = 0 THEN a ELSE GCD(b, a % b)

Rat(n, d) ==
  LET g == GCD(Abs(n), d)
  IN  [n |-> n \div g, d |-> d \div g]

Whole(i) == [n |-> i, d |-> 1]

RAdd(a, b) ==
  LET g == GCD(a.d, b.d)
  IN  Rat(a.n * (b.d \div g) + b.n * (a.d \div g), (a.d \div g) * b.d)

RSub(a, b) == RAdd(a, [n |-> -b.n, d |-> b.d])

RMul(a, b) ==
  LET g1 == GCD(Abs(a.n), b.d)
      g2 == GCD(Abs(b.n), a.d)
  IN  Rat((a.n \div g1) * (b.n \div g2), (a.d \div g2) * (b.d \div g1))

\* a / b for b > 0
RDiv(a, b) == RMul(a, [n |-> b.d, d |-> b.n])

RLess(a, b) == a.n * b.d < b.n * a.d

\* calcDT: readTUncompensated() - coeffs[5] * pow(2,8)
calcDT(coeffs, tRaw) == RSub(Whole(tRaw), RMul(Whole(coeffs[5]), Whole(2^8)))

\* calcOffset: (coeffs[2] * pow(2,17)) + (dT * coeffs[4]) / pow(2,6)
calcOffset(coeffs, tRaw) ==
  LET dT == calcDT(coeffs, tRaw)
  IN  RAdd(RMul(Whole(coeffs[2]), Whole(2^17)),
           RDiv(RMul(dT, Whole(coeffs[4])), Whole(2^6)))

\* calcSens: (coeffs[1] * pow(2,16)) + (dT * coeffs[3]) / pow(2,7)
calcSens(coeffs, tRaw) ==
  LET dT == calcDT(coeffs, tRaw)
  IN  RAdd(RMul(Whole(coeffs[1]), Whole(2^16)),
           RDiv(RMul(dT, Whole(coeffs[3])), Whole(2^7)))

\* (((pRaw * sens) / pow(2,21) - offset) / pow(2,15)) / 100, the division
\* by the power of two taken before the product
Pressure(pRaw, sens, offset) ==
  RDiv(RDiv(RSub(RMul(RDiv(Whole(pRaw), Whole(2^21)), sens), offset),
            Whole(2^15)),
       Whole(100))

\* firstOrderP(coeffs) when the altimeter returns the samples pRaw and tRaw
firstOrderP(coeffs, pRaw, tRaw) ==
  Pressure(pRaw, calcSens(coeffs, tRaw), calcOffset(coeffs, tRaw))

\* firstOrderT: (2000 + (dT * coeffs[6]) / pow(2,23)) / 100
firstOrderT(coeffs, tRaw) ==
  LET dT == calcDT(coeffs, tRaw)
  IN  RDiv(RAdd(Whole(2000), RDiv(RMul(dT, Whole(coeffs[6])), Whole(2^23))),
           Whole(100))

\* pow(x, 2)
Square(x) == RMul(x, x)

\* (secondOrderP applying the corrections of the cold branch at every
\* temperature)
Corrections_Always(coeffs, tRaw) ==
  LET temp == firstOrderT(coeffs, tRaw)
      dT == calcDT(coeffs, tRaw)
      cold == Square(RSub(temp, Whole(2000)))
      colder == Square(RAdd(temp, Whole(1500)))
      veryCold == RLess(temp, Whole(-15))
  IN  [temp2 |-> RMul(RDiv(dT, Whole(2^16)), RDiv(dT, Whole(2^15))),
       offset2 |-> RAdd(RDiv(RMul(Whole(61), cold), Whole(2^4)),
                        IF veryCold THEN RMul(Whole(15), colder) ELSE Whole(0)),
       sens2 |-> RAdd(RMul(Whole(2), cold),
                      IF veryCold THEN RMul(Whole(8), colder) ELSE Whole(0))]

\* secondOrderP: temp2, offset2 and sens2.  pow(dT,2) / pow(2,31) is taken
\* as (dT / 2^16) * (dT / 2^15).
Corrections(coeffs, tRaw) ==
  LET temp == firstOrderT(coeffs, tRaw)
      dT == calcDT(coeffs, tRaw)
      cold == Square(RSub(temp, Whole(2000)))
      colder == Square(RAdd(temp, Whole(1500)))
      veryCold == RLess(temp, Whole(-15))
  IN  IF RLess(temp, Whole(20))
      THEN [temp2 |-> RMul(RDiv(dT, Whole(2^16)), RDiv(dT, Whole(2^15))),
            offset2 |-> RAdd(RDiv(RMul(Whole(61), cold), Whole(2^4)),
                             IF veryCold THEN RMul(Whole(15), colder)
                             ELSE Whole(0)),
            sens2 |-> RAdd(RMul(Whole(2), cold),
                           IF veryCold THEN RMul(Whole(8), colder)
                           ELSE Whole(0))]
      ELSE [temp2 |-> Whole(0), offset2 |-> Whole(0), sens2 |-> Whole(0)]

\* secondOrderP(coeffs) when the altimeter returns the samples pRaw and tRaw
secondOrderP(coeffs, pRaw, tRaw) ==
  LET c == Corrections(coeffs, tRaw)
      offset == RSub(calcOffset(coeffs, tRaw), c.offset2)
      sens == RSub(calcSens(coeffs, tRaw), c.sens2)
  IN  Pressure(pRaw, sens, offset)

\* One raw sample and one set of coefficients; the three functions are
\* called on it in any order, each once
InitPressure ==
  /\ InitProgram /\ profile = <<>>
  /\ fn = "" /\ fnRet = <<>>
  /\ \E coeffs \in CoeffSets, pRaw \in PRawInputs, tRaw \in TRawInputs :
       fnArg = <<coeffs, pRaw, tRaw>>

Call_firstOrderT ==
  /\ "firstOrderT" \notin DOMAIN fnRet
  /\ fn' = "firstOrderT"
  /\ fnRet' = fnRet @@ ("firstOrderT" :> firstOrderT(fnArg[1], fnArg[3]))
  /\ UNCHANGED <<fnArg, progVars>>

Call_firstOrderP ==
  /\ "firstOrderP" \notin DOMAIN fnRet
  /\ fn' = "firstOrderP"
  /\ fnRet' = fnRet @@
       ("firstOrderP" :> firstOrderP(fnArg[1], fnArg[2], fnArg[3]))
  /\ UNCHANGED <<fnArg, progVars>>

Call_secondOrderP ==
  /\ "secondOrderP" \notin DOMAIN fnRet
  /\ fn' = "secondOrderP"
  /\ fnRet' = fnRet @@
       ("secondOrderP" :> secondOrderP(fnArg[1], fnArg[2], fnArg[3])) @@
       ("corrections" :> Corrections(fnArg[1], fnArg[3]))
  /\ UNCHANGED <<fnArg, progVars>>

NextPressure == Call_firstOrderT \/ Call_firstOrderP \/ Call_secondOrderP

SpecPressure == InitPressure /\ [][NextPressure]_vars

\* The width of `unsigned long` that getTimeMS accumulates the milliseconds
\* in, and of `unsigned long long` that it returns and start_time has. The
\* target has 32 and 64 bits; the words are taken narrower here, the wide one
\* twice the narrow one as on the target, so that the values fit the
\* checker's integers. The arithmetic is the same modular arithmetic.
WordBits == 13

LongLongBits == 2 * WordBits

ULONG_MAX == 2 ^ WordBits - 1

\* getTimeMS when the real-time clock reads `real` milliseconds:
\* unsigned long ms = tv_sec * 1000 + tv_nsec / 1000000 (+ 1 when rounding
\* up), held modulo the width of unsigned long, returned widened
getTimeMS(real) == real % 2 ^ WordBits

\* getTimeMS() - start_time, both unsigned long long
ElapsedMS(now, start) == (now - start) % 2 ^ LongLongBits

\* curSec = elapsed: the double converted to unsigned long. The fraction is
\* dropped; a value that does not fit is undefined behaviour: the builds
\* saturate, reduce modulo the width, or give zero.
ToULong(q) ==
  IF q <= ULONG_MAX THEN {q} ELSE {ULONG_MAX, q % 2 ^ WordBits, 0}

\* The milliseconds between two wake-ups of the loop
TickMS == {999, 1000, 1001}

\* The longest run followed, in milliseconds
MaxRunMS == 6000

\* The real-time clock when the loop starts: far from the wrap of the
\* narrow word, and within the run's length before it
StartTimes == {1000, 2500, 2 ^ WordBits - 3500, 2 ^ WordBits - 1500,
               2 ^ WordBits - 1}

InitElapsed ==
  /\ InitProgram /\ profile = <<>>
  /\ fn = "" /\ fnRet = 0
  /\ \E s \in StartTimes : fnArg = <<s, s>>

\* start_time = getTimeMS(); curSec = 0
Elapsed_Start ==
  /\ fn = ""
  /\ fn' = "start"
  /\ fnRet' = [start_time |-> getTimeMS(fnArg[1]), ms |-> 0, curSec |-> 0,
               prevSec |-> 0]
  /\ UNCHANGED <<fnArg, progVars>>

\* One pass of the loop, some milliseconds later:
\* elapsed = (getTimeMS() - start_time) / 1000.0; curSec = elapsed
Elapsed_Tick ==
  /\ fn \in {"start", "tick"}
  /\ \E d \in TickMS :
       /\ fnArg[2] + d - fnArg[1] <= MaxRunMS
       /\ fnArg' = <<fnArg[1], fnArg[2] + d>>
       /\ LET ms == ElapsedMS(getTimeMS(fnArg[2] + d), fnRet.start_time)
          IN  \E c \in ToULong(ms \div 1000) :
                fnRet' = [start_time |-> fnRet.start_time, ms |-> ms,
                          curSec |-> c, prevSec |-> fnRet.curSec]
  /\ fn' = "tick"
  /\ UNCHANGED progVars

NextElapsed == Elapsed_Start \/ Elapsed_Tick

SpecElapsed == InitElapsed /\ [][NextElapsed]_vars

SpecScenario == InitScenario /\ [][Next]_vars

InitBadReading == InitProgram /\ profile = BadReading /\ NoCall

SpecBadReading == InitBadReading /\ [][Next]_vars

(***************************************************************************)
(* Properties                                                              *)
(***************************************************************************)
IsPrefix(a, b) ==
  /\ Len(a) <= Len(b)
  /\ \A i \in 1 .. Len(a) : a[i] = b[i]

\* The tick has taken its decision (and, in the self-test tick, finished it)
Decided == ctl \in {"tick_print", "tick_wait"}

LoopEnded == ctl \in {"shutdown_hv", "geiger_stop", "close", "exited"}

\* countInterrupt is between resolving the active slot and its last write
InSlotUpdate ==
  isr \in {"ci_f_getsec", "ci_f_load", "ci_f_store", "ci_r_dt_getsec",
           "ci_r_dt_add", "ci_r_dc_getsec", "ci_r_dc_add"}

\* countInterrupt has resolved a slot index and is about to use it
HasSlotIndex == isr \in {"ci_f_load", "ci_f_store", "ci_r_dt_add", "ci_r_dc_add"}

\* C1 as stated: with threshold 100 m and deadband 10 m, the altitudes
\* [50,95,101,150,105,95,88,70] give the per-tick HV states
\* [off,off,on,on,on,on,off,off], and HV makes at most one off->on and at
\* most one on->off transition over the whole run.
C1_ScenarioAsStated ==
  /\ IsPrefix(hvTrace, ScenarioHV)
  /\ hvOnCount <= 1
  /\ hvOffCount <= 1

\* C1, amended: the HV state at the end of each tick follows
\* [off,off,on,on,on,on,off,off]; the first tick (50 m, below the band) runs
\* the self-test, which switches HV on and off inside that tick, so the run
\* has at most two transitions each way, at most one of each outside the
\* self-test.
C1_Scenario ==
  /\ IsPrefix(hvTrace, ScenarioHV)
  /\ postCount <= 1
  /\ hvOnCount <= postCount + 1
  /\ hvOffCount <= postCount + 1
  /\ hvOffCount <= hvOnCount

C1_Witness ==
  /\ hvTrace = ScenarioHV /\ sigReceived = 0
  /\ hvOnCount = 2 /\ hvOffCount = 2 /\ postCount = 1

\* C2: a tick that finds HV off turns it on when its altitude is above
\* geigerAlt; HV goes from off to on only in the decision of a tick whose
\* altitude is above geigerAlt, or on entering the self-test.
C2_ArmedTurnsOn ==
  /\ [](Decided /\ ~hvSeen /\ altitude > geigerAlt => HVisOn)
  /\ [][~HVisOn /\ HVisOn' =>
          /\ ctl = "tick_decide"
          /\ altitude > geigerAlt \/ ctl' = "post_wait"]_vars

C2_Witness ==
  /\ ctl = "tick_print" /\ ~hvSeen /\ altitude = geigerAlt + 1 /\ HVisOn
  /\ postCount = 0

\* C3: a tick that finds HV on turns it off when its altitude is below
\* geigerAlt - deadBand; while the loop runs (keepRunning), HV goes from on to
\* off only in a tick whose altitude is below geigerAlt - deadBand, so an
\* altitude inside the band never toggles HV.
C3_ActiveTurnsOff ==
  /\ [](Decided /\ hvSeen /\ altitude < geigerAlt - deadBand => ~HVisOn)
  /\ [][HVisOn /\ ~HVisOn' =>
          \/ altitude < geigerAlt - deadBand
          \/ ~keepRunning]_vars
  /\ [](Decided /\ hvSeen /\ altitude >= geigerAlt - deadBand => HVisOn)

C3_Witness ==
  /\ ctl = "tick_print" /\ hvSeen /\ ~HVisOn /\ keepRunning
  /\ altitude = geigerAlt - deadBand - 1

\* C4: setSecNum and countInterrupt never wait on each other's lock: no
\* state has setSecNum holding lock_sec and waiting for lock_count while
\* countInterrupt holds lock_count and waits, in getSecNum, for lock_sec.
C4_NoLockCycle ==
  ~ /\ ctl = "ss_lock_count" /\ lock_sec = "ctl"
    /\ isr \in {"ci_f_getsec", "ci_r_dt_getsec", "ci_r_dc_getsec"}
    /\ lock_count = "isr"

\* C5: setSecNum's rollover and countInterrupt's slot update never
\* interleave: while setSecNum is between its test of the slot and the
\* activation of the slot, countInterrupt is not in its slot update, and the
\* slot countInterrupt writes is the active one, which setSecNum never zeroes.
C5_RolloverSerialized ==
  /\ ctl \in {"ss_zero", "ss_activate", "ss_unlock"} => ~InSlotUpdate
  /\ HasSlotIndex => idx = secNum
  /\ InSlotUpdate => lock_count = "isr"

C5_Witness ==
  /\ ctl = "ss_activate" /\ numSecs # secNum /\ sec[secNum] > 0
  /\ isr = "ci_lock"

\* C6: after a reset that no countInterrupt overlaps, with every edge pair
\* 0 < dt <= ceiling and the window covering the seconds since the reset,
\* sumCounts(window) is the number of falling edges and the deadCounts of the
\* window add up to the number of accepted rising edges.
C6_SumsMatchEdges ==
  (resetIdle = "yes" /\ isr = "idle" /\ secNum + 1 <= size) =>
     /\ sumCounts(secNum + 1) = (arrived + 1) \div 2
     /\ SumFrom(deadCounts, secNum, 0, secNum + 1) = arrived \div 2

\* C7: once the loop has ended HV is never switched on, geigerStop leaves
\* keepRunning false, and the process exits with the HV flag false and the
\* gate low.
C7_ShutdownHVOff ==
  /\ [](ctl \in {"close", "exited"} => ~HVisOn /\ ~gatePin /\ ~keepRunning)
  /\ [][LoopEnded => ~(~HVisOn /\ HVisOn') /\ ~(~gatePin /\ gatePin')]_vars

C7_Witness ==
  /\ ctl = "exited" /\ hvSeen /\ altitude >= geigerAlt - deadBand
  /\ ~HVisOn /\ ~gatePin

\* C8: once a termination signal has set keepRunning to false, it is not
\* set back to true.
C8_FlagStaysFalse ==
  [][sigReceived # 0 /\ ~keepRunning => ~keepRunning']_vars

C10_ActiveEntryReset ==
  [][(ctl = "tick_decide" /\ ~HVisOn /\ HVisOn' /\ ctl' = "tick_print") =>
       /\ sec' = ZeroSlots /\ deadTime' = ZeroSlots
       /\ deadCounts' = ZeroSlots
       /\ t1' = 0]_vars

\* C11: the step that turns HV off because altitude < geigerAlt - deadBand
\* (Active -> Armed) leaves every slot's counts, dead time and dead-time
\* events, the active index secNum and the edge timestamps t1, t2 as they
\* were.
C11_OffKeepsCounts ==
  [][(ctl = "tick_decide" /\ HVisOn /\ ~HVisOn') =>
       /\ sec' = sec /\ deadTime' = deadTime /\ deadCounts' = deadCounts
       /\ secNum' = secNum /\ t1' = t1 /\ t2' = t2]_vars

\* HV has just been turned off by a low altitude while a slot still holds
\* a count and a dead-time event
C11_Witness ==
  /\ ctl = "tick_print" /\ hvSeen /\ ~HVisOn /\ BelowBand
  /\ \E i \in Slots : sec[i] > 0 /\ deadCounts[i] > 0

\* C12: when the tick's setSecNum retires the slot of the just-completed
\* second, the counts, dead time and dead-time events the tick read for that
\* second are the slot's final values: every pulse countInterrupt added to
\* the slot is in the values read.
C12_ReadIsComplete ==
  [][(ctl = "ss_activate" /\ ssCaller = "tick" /\ secNum' # secNum) =>
       /\ counts = sec[secNum]
       /\ rdDeadTime = deadTime[secNum]
       /\ rdDeadCounts = deadCounts[secNum]]_vars

\* The control thread is inside setSecNum
InSetSecNum ==
  ctl \in {"ss_lock_sec", "ss_lock_count", "ss_zero", "ss_activate",
           "ss_unlock"}

\* C13: a call setSecNum(s) that follows a call with the same s (so that
\* s % size is already the active index) changes neither the active index
\* nor any slot's counts, dead time or dead-time events, whatever was
\* accumulated since the first call.
C13_SameSecondNoRezero ==
  [][(InSetSecNum /\ ctl' # ctl /\ ssArg % size = secNum) =>
       /\ secNum' = secNum /\ sec' = sec
       /\ deadTime' = deadTime /\ deadCounts' = deadCounts]_vars

\* The second call has passed its zeroing test while the slot holds a pulse
\* counted after the first call
C13_Witness ==
  /\ ctl = "ss_activate" /\ numSecs = secNum /\ ssArg = curSec
  /\ sec[secNum] > 0 /\ deadCounts[secNum] > 0

\* C14: for every index i of the range, getIndex(i) is the true modulo of i
\* by 60 (in 0 .. 59, also for a negative i), and getIndex(i + 60) is the
\* same slot.
C14_TrueModulo ==
  fn = "getIndex" =>
    /\ fnRet \in 0 .. size - 1
    /\ fnRet = ((fnArg[1] % size) + size) % size
    /\ getIndex(fnArg[1] + size) = fnRet

\* getIndex(-1) is the last slot
C14_Witness == fn = "getIndex" /\ fnArg = <<-1>> /\ fnRet = size - 1

\* C15: in a flight where the altitude is above the threshold except for one
\* bad altimeter reading, the tick's decision never turns the high voltage
\* off: one low reading alone does not de-energize HV.
C15_OneBadReadingKeepsHV ==
  [][(ctl = "tick_decide" /\ HVisOn) => HVisOn']_vars

\* C16: when the output file or the log file cannot be created, or the
\* altimeter setup fails, the process has terminated in startup: geigerSetup
\* has not run (no interrupt is registered), no tick has started and the
\* high voltage was never switched on.
C16_StartupFailureIsFatal ==
  fault # "" =>
    /\ ctl = "failed"
    /\ ~isrOn /\ tick = 0
    /\ ~HVisOn /\ ~gatePin /\ hvOnCount = 0

\* The altimeter setup failed after both files were opened
C16_Witness == fault = "alt_setup" /\ ctl = "failed" /\ handlers

\* A bus transfer of the last transport operation reported an error
TransferFailed ==
  \/ fn = "altimeterCalibration" /\ ~fnArg[2].ok
  \/ fn = "altimeterADC" /\ (~fnArg[2].ok \/ ~fnArg[3].ok)

\* C17: altimeterCalibration and altimeterADC report a transport fault to
\* their caller whenever one of their SPIDataRW transfers reported an error.
C17_TransportFaultPropagates == TransferFailed => fnRet.fault

\* C18: altimeterReset, altimeterCalibration and altimeterADC leave the bus
\* delay as they found it: SPIGetDelay() is the same after the call as
\* before it.
C18_DelayRestored ==
  [][fn' \in {"altimeterReset", "altimeterCalibration", "altimeterADC"} =>
       spiDelay' = spiDelay]_vars

\* The locations of main before the call of setQFF returns
BeforeQFF ==
  ctl \in {"start", "install", "open_csv", "open_log", "set_running",
           "alt_setup", "set_qff"}

\* C19: setQFF is called exactly once, in startup after the altimeter was
\* set up: it has been called when the first tick starts and before the
\* high voltage is switched for the first time, and it is not called again.
C19_QFFOnce ==
  /\ [](/\ qffCalls <= 1
        /\ qffCalls = 1 => ~BeforeQFF /\ fault = ""
        /\ ~BeforeQFF /\ ctl # "failed" => qffCalls = 1
        /\ tick >= 1 \/ hvOnCount + hvOffCount > 0 => qffCalls = 1)
  /\ [][qffCalls = 1 => qffCalls' = 1]_vars

\* The second tick takes its altitude decision with the QFF reference set
\* once
C19_Witness == ctl = "tick_decide" /\ tick = 2 /\ qffCalls = 1 /\ HVisOn

\* The three functions have been called on the sample
AllComputed ==
  {"firstOrderT", "firstOrderP", "secondOrderP"} \subseteq DOMAIN fnRet

\* C20: on one raw sample and one set of coefficients, when firstOrderT is
\* at least 20 degrees C the corrections temp2, offset2 and sens2 of
\* secondOrderP are zero and secondOrderP equals firstOrderP.
C20_WarmPassThrough ==
  (AllComputed /\ ~RLess(fnRet.firstOrderT, Whole(20))) =>
    /\ fnRet.corrections =
         [temp2 |-> Whole(0), offset2 |-> Whole(0), sens2 |-> Whole(0)]
    /\ fnRet.secondOrderP = fnRet.firstOrderP

\* A sample at 21 degrees C, both pressures computed
C20_Witness ==
  /\ AllComputed /\ fnRet.firstOrderT = Whole(21)
  /\ fnRet.secondOrderP = fnRet.firstOrderP

\* The ticks whose record has been put in the write buffer
Recorded == IF ctl \in {"tick_read", "ss_lock_sec", "ss_lock_count", "ss_zero",
                        "ss_activate", "ss_unlock", "tick_sample"}
               /\ ssCaller # "reset"
            THEN 1 .. tick - 1 ELSE 1 .. tick

\* The ticks that have a row in the output file
Written == {csv[i] : i \in 1 .. Len(csv)}

\* C21: the output file holds one row per tick, in tick order, and nothing
\* else: the rows are the records of ticks 1, 2, 3, ... with none missing,
\* repeated, stale or uninitialised, and a record not written yet is still
\* in the write buffer.
C21_OneRowPerTick ==
  /\ \A i \in 1 .. Len(csv) : csv[i] = i
  /\ \A k \in Recorded :
       k \in Written \/ \E i \in 0 .. buffer_seconds - 1 : data[i] = k

\* C22: when the process has closed the output file, every tick's record
\* has a row in it.
C22_FlushedAtExit == ctl = "exited" => Recorded \subseteq Written

\* The slots of the last n seconds
WindowSlots(n) == {getIndex(secNum - k) : k \in 0 .. n - 1}

RECURSIVE SetSum(_, _)
SetSum(f, S) ==
  IF S = {} THEN 0
  ELSE LET x == CHOOSE y \in S : TRUE IN f[x] + SetSum(f, S \ {x})

\* C23: for a window of 1 to 180 seconds, sumCounts(window) is the total of
\* the slots sec[getIndex(secNum - k)], k in [0, window), each slot, and so
\* each counted pulse, taken once.
C23_EachSlotOnce ==
  fn = "sumCounts" => fnRet = SetSum(sec, WindowSlots(fnArg[1]))

\* The dead-time events accepted in all the slots
Accepted == SetSum(deadCounts, Slots)

\* The train has been handled to its last edge
TrainDone == edges = Len(fnArg) /\ isr = "idle"

\* The branch of countInterrupt that the edge state selects
Phase(a, b) ==
  IF a = 0 THEN "WaitingFalling"
  ELSE IF a = b THEN "WaitingRising" ELSE "impossible"

\* countInterrupt takes the timestamp of an edge that came while it waited
\* for the rising edge
RiseStamped == isr = "ci_r_stamp" /\ isr' # "ci_r_stamp"

\* C24: an edge that arrives while countInterrupt waits for the rising edge,
\* more than the 5 ms ceiling after t1, resynchronises: t1 becomes the new
\* timestamp, the phase is still WaitingRising, and up to the return of
\* countInterrupt no count, dead time or dead-time event of any slot changes.
C24_ResyncOnLongDt ==
  /\ [][RiseStamped /\ mono > t1 /\ mono - t1 > DeadTimeCeiling =>
          /\ t1' = mono /\ Phase(t1', t2') = "WaitingRising"
          /\ isr' = "ci_unlock"
          /\ UNCHANGED slotVars]_vars
  /\ [][isr = "ci_unlock" /\ isr' = "idle" =>
          UNCHANGED <<slotVars, edgeVars>>]_vars

C24_Witness ==
  /\ fn = "" /\ fnArg = <<Gap, 51, 50>> /\ edges = 2
  /\ isr = "idle" /\ t1 = 1 + Gap + 51 /\ t2 = t1
  /\ sec = [ZeroSlots EXCEPT ![0] = 1] /\ deadCounts = ZeroSlots

\* C25: an edge that arrives while countInterrupt waits for the rising edge,
\* with a timestamp not later than t1, is discarded: the phase, t1 and every
\* slot are as before.
C25_NonPositiveDiscarded ==
  [][RiseStamped /\ mono <= t1 =>
       /\ t1' = t1 /\ Phase(t1', t2') = Phase(t1, t2)
       /\ UNCHANGED slotVars]_vars

\* C27: the intervals 0.3 ms, 0.9 ms and 0.2 ms measured on one pulse train
\* after a reset give exactly one accepted dead-time event, the edge state is
\* in one of its two phases, and no slot holds a negative count.
C27_OneAcceptedEvent ==
  /\ \A j \in Slots : sec[j] >= 0 /\ deadCounts[j] >= 0 /\ deadTime[j] >= 0
  /\ fnArg \in {Train3Dt, Train3DtShort} /\ TrainDone =>
       Accepted = 1 /\ Phase(t1, t2) # "impossible"

\* countInterrupt adds an accepted interval to deadTime[idx], or the event
\* to deadCounts[idx]
Credits ==
  \/ isr = "ci_r_dt_add" /\ isr' = "ci_r_dc_getsec"
  \/ isr = "ci_r_dc_add" /\ isr' = "ci_unlock"

\* C26: the interval and the dead-time event of an accepted rising edge go
\* to the slot that was active when the falling edge recorded t1, also when
\* setSecNum has moved the active index since.
C26_CreditedToFallingSlot == [][Credits => idx = t1Slot]_vars

\* The three arrays agree with f on every slot but j
SameBut(f, g, j) == \A k \in Slots \ {j} : f[k] = g[k]

\* The slot j of the three arrays is zero
SlotIsZero(j) == sec[j] = 0 /\ deadTime[j] = 0 /\ deadCounts[j] = 0

\* C28: a call setSecNum(s) with s mod 60 other than the active index zeroes
\* the counts, dead time and dead-time events of slot s mod 60 and changes
\* no other slot, makes s mod 60 the active index, and returns with that
\* slot still zero.
C28_NewSlotZeroed ==
  /\ [][ctl = "ss_zero" /\ ctl' = "ss_activate" /\ numSecs # secNum =>
          /\ numSecs = ssArg % size
          /\ SameBut(sec, sec', numSecs)
          /\ SameBut(deadTime, deadTime', numSecs)
          /\ SameBut(deadCounts, deadCounts', numSecs)
          /\ SlotIsZero(numSecs)' /\ secNum' = secNum]_vars
  /\ [][ctl = "ss_activate" /\ ctl' = "ss_unlock" =>
          /\ secNum' = ssArg % size
          /\ (secNum' # secNum => SlotIsZero(secNum)')
          /\ UNCHANGED <<sec, deadTime, deadCounts>>]_vars
  /\ [][ctl = "ss_unlock" /\ ctl' # "ss_unlock" =>
          UNCHANGED slotVars]_vars

\* setSecNum(61) has returned: slot 1, which held the counts of the minute
\* before, is zero and active, the slots beside it hold their counts
C28_Witness ==
  /\ ctl = "tick_sample" /\ ssArg = 61 /\ secNum = 1
  /\ SlotIsZero(1) /\ sec[0] = 2 /\ sec[2] = 2 /\ deadCounts[0] = 2

\* countInterrupt writes t1, t2 or a slot
IsrWrites ==
  /\ isr \in {"ci_f_store", "ci_f_stamp", "ci_r_stamp", "ci_r_dt_add",
               "ci_r_dc_add"}
  /\ isr' # isr

\* setSecNum zeroes a slot
SetSecNumWrites == ctl = "ss_zero" /\ ctl' # ctl /\ numSecs # secNum

\* geigerReset zeroes the counts or clears t2 or t1
ResetWrites == ctl \in {"gr_zero", "gr_t2", "gr_t1"} /\ ctl' # ctl

\* C29: countInterrupt, setSecNum and geigerReset write t1, t2 and the
\* arrays sec, deadTime and deadCounts only while they hold lock_count, so
\* that no such write comes while a countInterrupt is in progress.
C29_WritesUnderLock ==
  [][/\ IsrWrites => lock_count = "isr"
     /\ SetSecNumWrites \/ ResetWrites =>
          lock_count = "ctl" /\ ~InSlotUpdate]_vars

\* C30: whenever no countInterrupt is executing the edge state is in one of
\* its two phases, t1 = 0 or t1 = t2 # 0, and countInterrupt never takes its
\* third branch, whatever the interleaving with setSecNum and geigerReset.
C30_TwoPhases ==
  /\ isr = "idle" => Phase(t1, t2) # "impossible"
  /\ isr # "ci_impossible"

\* geigerReset returns
ResetReturns == ctl = "gr_t1" /\ ctl' # "gr_t1"

\* C31: when geigerReset returns the active index is 0, the counts, dead
\* time and dead-time events of all 60 slots are zero and t1 = t2 = 0,
\* whatever they were before the call.
C31_ResetClearsAll ==
  [][ResetReturns =>
       /\ secNum' = 0 /\ sec' = ZeroSlots
       /\ deadTime' = ZeroSlots /\ deadCounts' = ZeroSlots
       /\ t1' = 0 /\ t2' = 0]_vars

\* The pulses countInterrupt has counted in all the slots
Counted == SetSum(sec, Slots)

\* Neither countInterrupt nor blinkLED is inside an update
LedQuiet == isr = "idle" /\ led = "test"

\* C32: every counted pulse gives one flash of flashTime: whenever neither
\* countInterrupt nor blinkLED is inside an update, LEDTime is flashTime
\* times the pulses counted less the flashes started, and it is never
\* negative, under every interleaving of the two.
C32_OneFlashPerPulse ==
  /\ LEDTime >= 0
  /\ LedQuiet => LEDTime = flashTime * (Counted - flashes)

\* C33: under the default configuration and under each of the presets -b,
\* -l and -t, deadBand is strictly smaller than geigerAlt.
C33_DeadbandBelowThreshold == deadBand < geigerAlt

\* The tick has stored its record, which carries counts, dead time and
\* dead-time events because HV was on; a self-test has been run, and every
\* edge delivered before its reset was handled before that reset was called
RecordWithCounts ==
  ctl = "tick_decide" /\ hvSeen /\ postCount > 0 /\ resetIdle = "yes"

\* C34: nothing counted during the self-test reaches the output: a record
\* stored after the self-test carries no more pulses and dead-time events,
\* and no more dead time, than the edges delivered since the reset of the
\* self-test account for (every earlier edge was counted during the
\* self-test), and no row is written during the self-test.
C34_SelfTestNotCommitted ==
  /\ [](RecordWithCounts =>
         /\ counts <= (arrived + 1) \div 2
         /\ rdDeadCounts <= arrived \div 2
         /\ rdDeadTime <= DeadTimeCeiling * (arrived \div 2))
  /\ [][inPost => csv' = csv]_vars

\* The loop has turned HV on because the altitude was above geigerAlt: HV
\* went on more often than self-tests were started
ThresholdOnSeen == hvOnCount > postCount

SkippedSlots(a, b) == {getIndex(a + k) : k \in 1 .. getIndex(b - a) - 1}

\* C36: whatever the seconds of the ticks, also when they skip, a slot that
\* sumCounts adds for a window of at most 60 holds only pulses counted in
\* the second it stands for: when setSecNum moves the active index over
\* skipped seconds, in which no pulse went to their slots, these slots hold
\* no counts, none left from 60 seconds or more before.
C36_NoStaleSlot ==
  [][ctl = "ss_activate" /\ ctl' = "ss_unlock" =>
       \A j \in SkippedSlots(secNum, secNum') : sec'[j] = 0]_vars

\* C37: with no reset in between, whenever no countInterrupt is executing,
\* the pulses counted less the dead-time events accepted are 0 or 1, and 1
\* exactly when countInterrupt waits for the rising edge; so the accepted
\* events never exceed the pulses counted.
C37_PulsesLeadEventsByOne ==
  isr = "idle" =>
    /\ Counted - Accepted \in {0, 1}
    /\ Counted - Accepted = 1 <=> Phase(t1, t2) = "WaitingRising"

\* After an edge above the ceiling resynchronised, two pulses are counted
\* and one event accepted, and countInterrupt waits for the rising edge
C37_Witness ==
  /\ isr = "idle" /\ fnArg = <<Gap, 50, Gap, 51>> /\ edges = 4
  /\ Counted = 2 /\ Accepted = 1 /\ Phase(t1, t2) = "WaitingRising"

\* geigerSetup has run
SetupDone == isrOn

\* C38: from geigerSetup on, HVOn and HVOff each being one step, the gate
\* pin is high exactly when HVisOn is true, whatever the level of the pin
\* was before the process started.
C38_GateFollowsFlag == SetupDone => (gatePin <=> HVisOn)

\* C39: at every tick the elapsed time computed as getTimeMS() - start_time
\* is the number of milliseconds really passed since start_time was taken,
\* and curSec is not less than at the tick before, also when the
\* milliseconds held in getTimeMS's unsigned long wrap around between the
\* two readings.
C39_ElapsedIsTrue ==
  fn = "tick" => /\ fnRet.ms = fnArg[2] - fnArg[1]
                 /\ fnRet.curSec >= fnRet.prevSec

=============================================================================
